---- MODULE Spec2Model ----
(***************************************************************************)
(* Model of the agentic-ui MCP server: the xstate text machine             *)
(* (machine.ts), its persistence (loadPersistedState / saveState /         *)
(* getActor), the long-polling get_user_input tool (index.ts) and the      *)
(* WebSocket server with its observers and its intake of submit/cancel    *)
(* (websocket.ts).                                                         *)
(*                                                                         *)
(* A nullable or optional value (T | null, field?: T) is the empty tuple   *)
(* when absent and a one-element tuple <<v>> when present.                 *)
(***************************************************************************)
EXTENDS Integers, Sequences, FiniteSets, TLC

\* ---------------------------------------------------------------- bounds
\* number of commands (tool calls, WebSocket messages, restarts) in a run
MaxSteps == 5
\* the same, in runs with observers, unknown operations and a faulty disk
MaxIOSteps == 4
MaxPollSteps == 4
MaxSockets == 3

\* ------------------------------------------------------- input alphabets
Markdowns == {"hi", "bye"}
AppendTexts == {"!"}
Contents == {<<>>, <<"doc">>}
Keys == {<<>>, <<"name">>}
SubmitValues == {"Ada"}
FieldLists == {<<"name", "role">>}
MultiValues == {[k \in {"name", "role"} |-> "v"], [k \in {"other"} |-> "w"]}
ContextKeys == {"name"}
ContextValues == {"c"}
Clients == {"a", "b"}
UnknownActions == {"set_color"}
UnknownMessages == {"ping"}
Pages == {"tab1", "tab2"}

\* ---------------------------------------------------------------- state
VARIABLES
  state,        \* snapshot.value of the actor
  context,      \* snapshot.context of the actor
  file,         \* contents of STATE_FILE: <<>> when absent, else <<PersistedState>>
  nextId,       \* stands for Date.now()/Math.random(): the next fresh request id
  waiters,      \* the long-poll subscriptions of get_user_input that are still subscribed
  waitingOn,    \* waiter -> id of the request that was pending when it subscribed
  resolved,     \* waiter -> sequence of results handed to resolve()
  nextWaiter,   \* number of long-poll subscriptions created so far
  steps,        \* number of commands so far
  lastEvent,    \* the most recent event passed to sendEvent (<<>> before the first and after a restart)
  pre,          \* the actor's snapshot before lastEvent was sent
  resolvedIds,  \* ids of the requests resolved so far by a matching submit or cancel
  scenarioPos,  \* k when the run so far is exactly the first k commands of Scenario, else -1
  shownOver,    \* the (text, contentType) displayed when the latest request was installed
  clients,      \* open WebSocket connection -> [n: messages received, last: the latest one]
  writable,     \* whether fs.writeFileSync(STATE_FILE, ...) succeeds
  budget,       \* number of commands this run may issue
  effects,      \* what the last step did outside the actor, in the order it did it
  lastCall,     \* the last operation asked of the server and the reply its caller got
  staleIds,     \* requestIds that loadPersistedState replaced by a fresh one
  component,    \* page -> lifecycle of its component that called useWebSocket
  ws,           \* page -> useWebSocket's `ws`: <<k>> for the k-th socket it created, <<>> for null
  readyState,   \* page -> sequence of the readyState of every socket it created
  connected,    \* page -> useWebSocket's connected.value
  reconnectTimer, \* page -> useWebSocket's `reconnectTimer`: <<t>> for a timer id, <<>> for null
  timers,       \* page -> ids of the timeouts the browser still has scheduled
  timerCount    \* page -> number of timeouts set so far

serverVars == <<state, context, file, nextId, waiters, waitingOn, resolved, nextWaiter,
                steps, lastEvent, pre, resolvedIds, scenarioPos, shownOver,
                clients, writable, budget, effects, lastCall, staleIds>>

pageVars == <<component, ws, readyState, connected, reconnectTimer, timers, timerCount>>

vars == <<serverVars, pageVars>>

Null == <<>>
EmptyMap == [k \in {} |-> ""]

\* JavaScript truthiness of an optional string (undefined and '' are falsy)
Truthy(opt) == opt # Null /\ opt[1] # ""

isMultiFieldRequest(request) == request # Null /\ "fields" \in DOMAIN request[1]

initialContext ==
  [ text |-> "",
    contentType |-> "text",
    history |-> <<>>,
    lastAction |-> Null,
    lastError |-> Null,
    inputRequest |-> Null,
    userInput |-> Null,
    multiFieldInput |-> Null,
    inputStatus |-> "idle",
    userContext |-> EmptyMap,
    sidebarVisible |-> TRUE ]

HistoryEntry(c) == [text |-> c.text, contentType |-> c.contentType]

\* ------------------------------------------------- textMachine.states.idle
\* (a set_markdown that does not push the replaced content)
idle_SET_MARKDOWN_nopush(c, e) ==
  [c EXCEPT !.text = e.markdown,
            !.contentType = "markdown",
            !.lastAction = <<"set_markdown">>,
            !.lastError = Null]

idle_SET_MARKDOWN(c, e) ==
  [c EXCEPT !.history = Append(c.history, HistoryEntry(c)),
            !.text = e.markdown,
            !.contentType = "markdown",
            !.lastAction = <<"set_markdown">>,
            !.lastError = Null]

idle_APPEND(c, e) ==
  [c EXCEPT !.history = Append(c.history, HistoryEntry(c)),
            !.text = c.text \o e.text,
            !.lastAction = <<"append">>,
            !.lastError = Null]

idle_SHOW_INPUT(c, e) ==
  [c EXCEPT !.inputRequest = <<e.request>>,
            !.userInput = Null,
            !.multiFieldInput = Null,
            !.inputStatus = "pending",
            !.lastAction = <<"show_input">>,
            !.lastError = Null]

idle_SHOW_MULTI_FORM(c, e) ==
  [c EXCEPT !.inputRequest = <<e.request>>,
            !.userInput = Null,
            !.multiFieldInput = Null,
            !.inputStatus = "pending",
            !.lastAction = <<"show_multi_form">>,
            !.lastError = Null]

idle_SET_USER_CONTEXT(c, e) ==
  [c EXCEPT !.userContext = (e.key :> e.value) @@ c.userContext,
            !.lastAction = <<"set_user_context">>,
            !.lastError = Null]

idle_CLEAR_USER_CONTEXT(c, e) ==
  [c EXCEPT !.userContext = EmptyMap,
            !.lastAction = <<"clear_user_context">>,
            !.lastError = Null]

idle_TOGGLE_SIDEBAR(c, e) ==
  [c EXCEPT !.sidebarVisible = ~c.sidebarVisible,
            !.lastAction = <<"toggle_sidebar">>,
            !.lastError = Null]

\* ------------------------------------------- textMachine.states.displaying
displaying_SET_MARKDOWN(c, e) ==
  [c EXCEPT !.history = Append(c.history, HistoryEntry(c)),
            !.text = e.markdown,
            !.contentType = "markdown",
            !.lastAction = <<"set_markdown">>,
            !.lastError = Null]

\* (an append that does not push the replaced content)
displaying_APPEND_nopush(c, e) ==
  [c EXCEPT !.text = c.text \o e.text,
            !.lastAction = <<"append">>,
            !.lastError = Null]

displaying_APPEND(c, e) ==
  [c EXCEPT !.history = Append(c.history, HistoryEntry(c)),
            !.text = c.text \o e.text,
            !.lastAction = <<"append">>,
            !.lastError = Null]

\* (an undo that fails on an empty history without recording an error)
displaying_UNDO_silent(c, e) ==
  IF Len(c.history) > 0
  THEN [c EXCEPT !.text = c.history[Len(c.history)].text,
                 !.contentType = c.history[Len(c.history)].contentType,
                 !.history = SubSeq(c.history, 1, Len(c.history) - 1),
                 !.lastAction = <<"undo">>,
                 !.lastError = Null]
  ELSE c

\* (an undo that restores the oldest entry instead of the newest)
displaying_UNDO_oldest(c, e) ==
  IF Len(c.history) > 0
  THEN [c EXCEPT !.text = c.history[1].text,
                 !.contentType = c.history[1].contentType,
                 !.history = SubSeq(c.history, 1, Len(c.history) - 1),
                 !.lastAction = <<"undo">>,
                 !.lastError = Null]
  ELSE [c EXCEPT !.lastError = <<"No history to undo">>]

displaying_UNDO(c, e) ==
  IF Len(c.history) > 0
  THEN [c EXCEPT !.text = c.history[Len(c.history)].text,
                 !.contentType = c.history[Len(c.history)].contentType,
                 !.history = SubSeq(c.history, 1, Len(c.history) - 1),
                 !.lastAction = <<"undo">>,
                 !.lastError = Null]
  ELSE [c EXCEPT !.lastError = <<"No history to undo">>]

\* (a reset that also forgets the user context)
displaying_RESET_all(c, e) == initialContext

\* (a reset that goes back to idle with the content and the history kept)
displaying_RESET_keepsText(c, e) ==
  [c EXCEPT !.lastAction = <<"reset">>, !.lastError = Null]

displaying_RESET(c, e) ==
  [initialContext EXCEPT !.userContext = c.userContext]

\* (a SHOW_INPUT that installs the request without marking it pending)
displaying_SHOW_INPUT_idleStatus(c, e) ==
  [c EXCEPT !.inputRequest = <<e.request>>,
            !.userInput = Null,
            !.multiFieldInput = Null,
            !.lastAction = <<"show_input">>,
            !.lastError = Null]

displaying_SHOW_INPUT(c, e) ==
  [c EXCEPT !.inputRequest = <<e.request>>,
            !.userInput = Null,
            !.multiFieldInput = Null,
            !.inputStatus = "pending",
            !.lastAction = <<"show_input">>,
            !.lastError = Null]

displaying_SHOW_MULTI_FORM(c, e) ==
  [c EXCEPT !.inputRequest = <<e.request>>,
            !.userInput = Null,
            !.multiFieldInput = Null,
            !.inputStatus = "pending",
            !.lastAction = <<"show_multi_form">>,
            !.lastError = Null]

displaying_SET_USER_CONTEXT(c, e) ==
  [c EXCEPT !.userContext = (e.key :> e.value) @@ c.userContext,
            !.lastAction = <<"set_user_context">>,
            !.lastError = Null]

displaying_CLEAR_USER_CONTEXT(c, e) ==
  [c EXCEPT !.userContext = EmptyMap,
            !.lastAction = <<"clear_user_context">>,
            !.lastError = Null]

displaying_TOGGLE_SIDEBAR(c, e) ==
  [c EXCEPT !.sidebarVisible = ~c.sidebarVisible,
            !.lastAction = <<"toggle_sidebar">>,
            !.lastError = Null]

\* -------------------------------------- textMachine.states.waitingForInput
\* (a guard that accepts any requestId)
requestIdGuard_any(c, e) == c.inputRequest # Null

\* guard of SUBMIT_INPUT, CANCEL_INPUT and SUBMIT_MULTI_FORM:
\*   context.inputRequest?.requestId === event.requestId
requestIdGuard(c, e) ==
  c.inputRequest # Null /\ c.inputRequest[1].requestId = e.requestId

\* (the request's content is dropped on resolution)
preservedText_never(c) == c.text

\* context.inputRequest?.content || context.text
preservedText(c) ==
  IF c.inputRequest # Null /\ Truthy(c.inputRequest[1].content)
  THEN c.inputRequest[1].content[1]
  ELSE c.text

\* context.inputRequest?.content ? 'markdown' : context.contentType
preservedContentType(c) ==
  IF c.inputRequest # Null /\ Truthy(c.inputRequest[1].content)
  THEN "markdown"
  ELSE c.contentType

\* (a submit that never stores the value under the request's key)
waitingForInput_SUBMIT_INPUT_nostore(c, e) ==
  [c EXCEPT !.userInput = <<e.value>>,
            !.inputStatus = "submitted",
            !.text = preservedText(c),
            !.contentType = preservedContentType(c),
            !.inputRequest = Null,
            !.lastAction = <<"input_submitted">>,
            !.lastError = Null]

waitingForInput_SUBMIT_INPUT(c, e) ==
  [c EXCEPT !.userInput = <<e.value>>,
            !.inputStatus = "submitted",
            !.userContext =
               IF c.inputRequest # Null /\ ~isMultiFieldRequest(c.inputRequest)
                  /\ Truthy(c.inputRequest[1].key)
               THEN (c.inputRequest[1].key[1] :> e.value) @@ c.userContext
               ELSE c.userContext,
            !.text = preservedText(c),
            !.contentType = preservedContentType(c),
            !.inputRequest = Null,
            !.lastAction = <<"input_submitted">>,
            !.lastError = Null]

\* (a cancel that leaves the request in place)
waitingForInput_CANCEL_INPUT_keeps(c, e) ==
  [c EXCEPT !.userInput = Null,
            !.multiFieldInput = Null,
            !.inputStatus = "cancelled",
            !.text = preservedText(c),
            !.contentType = preservedContentType(c),
            !.lastAction = <<"input_cancelled">>,
            !.lastError = Null]

waitingForInput_CANCEL_INPUT(c, e) ==
  [c EXCEPT !.userInput = Null,
            !.multiFieldInput = Null,
            !.inputStatus = "cancelled",
            !.text = preservedText(c),
            !.contentType = preservedContentType(c),
            !.inputRequest = Null,
            !.lastAction = <<"input_cancelled">>,
            !.lastError = Null]

waitingForInput_SUBMIT_MULTI_FORM(c, e) ==
  [c EXCEPT !.multiFieldInput = <<e.values>>,
            !.userInput = Null,
            !.inputStatus = "submitted",
            !.userContext = e.values @@ c.userContext,
            !.text = preservedText(c),
            !.contentType = preservedContentType(c),
            !.inputRequest = Null,
            !.lastAction = <<"multi_form_submitted">>,
            !.lastError = Null]

waitingForInput_RESET(c, e) ==
  [initialContext EXCEPT !.userContext = c.userContext]

\* ------------------------------------------------------------ textMachine
Snapshot(v, c) == [value |-> v, context |-> c]

\* The `on` table of each state: the snapshot after the transition the
\* state declares for the event; the unchanged snapshot when it declares
\* none or the guard fails (xstate drops such an event).
idle_on(c, e) ==
  CASE e.type = "SET_MARKDOWN" -> Snapshot("displaying", idle_SET_MARKDOWN(c, e))
    [] e.type = "APPEND" -> Snapshot("displaying", idle_APPEND(c, e))
    [] e.type = "SHOW_INPUT" -> Snapshot("waitingForInput", idle_SHOW_INPUT(c, e))
    [] e.type = "SHOW_MULTI_FORM" -> Snapshot("waitingForInput", idle_SHOW_MULTI_FORM(c, e))
    [] e.type = "SET_USER_CONTEXT" -> Snapshot("idle", idle_SET_USER_CONTEXT(c, e))
    [] e.type = "CLEAR_USER_CONTEXT" -> Snapshot("idle", idle_CLEAR_USER_CONTEXT(c, e))
    [] e.type = "TOGGLE_SIDEBAR" -> Snapshot("idle", idle_TOGGLE_SIDEBAR(c, e))
    [] OTHER -> Snapshot("idle", c)

\* (a displaying state that still answers a CANCEL_INPUT)
displaying_on_cancels(c, e) ==
  CASE e.type = "SET_MARKDOWN" -> Snapshot("displaying", displaying_SET_MARKDOWN(c, e))
    [] e.type = "APPEND" -> Snapshot("displaying", displaying_APPEND(c, e))
    [] e.type = "UNDO" -> Snapshot("displaying", displaying_UNDO(c, e))
    [] e.type = "RESET" -> Snapshot("idle", displaying_RESET(c, e))
    [] e.type = "SHOW_INPUT" -> Snapshot("waitingForInput", displaying_SHOW_INPUT(c, e))
    [] e.type = "SHOW_MULTI_FORM" -> Snapshot("waitingForInput", displaying_SHOW_MULTI_FORM(c, e))
    [] e.type = "SET_USER_CONTEXT" -> Snapshot("displaying", displaying_SET_USER_CONTEXT(c, e))
    [] e.type = "CLEAR_USER_CONTEXT" -> Snapshot("displaying", displaying_CLEAR_USER_CONTEXT(c, e))
    [] e.type = "TOGGLE_SIDEBAR" -> Snapshot("displaying", displaying_TOGGLE_SIDEBAR(c, e))
    [] e.type = "CANCEL_INPUT" ->
         Snapshot("displaying", [c EXCEPT !.inputStatus = "cancelled",
                                          !.userInput = Null,
                                          !.multiFieldInput = Null])
    [] OTHER -> Snapshot("displaying", c)

displaying_on(c, e) ==
  CASE e.type = "SET_MARKDOWN" -> Snapshot("displaying", displaying_SET_MARKDOWN(c, e))
    [] e.type = "APPEND" -> Snapshot("displaying", displaying_APPEND(c, e))
    [] e.type = "UNDO" -> Snapshot("displaying", displaying_UNDO(c, e))
    [] e.type = "RESET" -> Snapshot("idle", displaying_RESET(c, e))
    [] e.type = "SHOW_INPUT" -> Snapshot("waitingForInput", displaying_SHOW_INPUT(c, e))
    [] e.type = "SHOW_MULTI_FORM" -> Snapshot("waitingForInput", displaying_SHOW_MULTI_FORM(c, e))
    [] e.type = "SET_USER_CONTEXT" -> Snapshot("displaying", displaying_SET_USER_CONTEXT(c, e))
    [] e.type = "CLEAR_USER_CONTEXT" -> Snapshot("displaying", displaying_CLEAR_USER_CONTEXT(c, e))
    [] e.type = "TOGGLE_SIDEBAR" -> Snapshot("displaying", displaying_TOGGLE_SIDEBAR(c, e))
    [] OTHER -> Snapshot("displaying", c)

\* (a waitingForInput state in which a new SHOW_INPUT replaces the request)
waitingForInput_on_shows(c, e) ==
  CASE e.type = "SUBMIT_INPUT" /\ requestIdGuard(c, e)
         -> Snapshot("displaying", waitingForInput_SUBMIT_INPUT(c, e))
    [] e.type = "CANCEL_INPUT" /\ requestIdGuard(c, e)
         -> Snapshot("displaying", waitingForInput_CANCEL_INPUT(c, e))
    [] e.type = "SUBMIT_MULTI_FORM" /\ requestIdGuard(c, e)
         -> Snapshot("displaying", waitingForInput_SUBMIT_MULTI_FORM(c, e))
    [] e.type = "RESET" -> Snapshot("idle", waitingForInput_RESET(c, e))
    [] e.type = "SHOW_INPUT" -> Snapshot("waitingForInput", displaying_SHOW_INPUT(c, e))
    [] OTHER -> Snapshot("waitingForInput", c)

\* (a waitingForInput state that also handles TOGGLE_SIDEBAR)
waitingForInput_on_toggles(c, e) ==
  CASE e.type = "SUBMIT_INPUT" /\ requestIdGuard(c, e)
         -> Snapshot("displaying", waitingForInput_SUBMIT_INPUT(c, e))
    [] e.type = "CANCEL_INPUT" /\ requestIdGuard(c, e)
         -> Snapshot("displaying", waitingForInput_CANCEL_INPUT(c, e))
    [] e.type = "SUBMIT_MULTI_FORM" /\ requestIdGuard(c, e)
         -> Snapshot("displaying", waitingForInput_SUBMIT_MULTI_FORM(c, e))
    [] e.type = "RESET" -> Snapshot("idle", waitingForInput_RESET(c, e))
    [] e.type = "TOGGLE_SIDEBAR" -> Snapshot("waitingForInput", displaying_TOGGLE_SIDEBAR(c, e))
    [] OTHER -> Snapshot("waitingForInput", c)

waitingForInput_on(c, e) ==
  CASE e.type = "SUBMIT_INPUT" /\ requestIdGuard(c, e)
         -> Snapshot("displaying", waitingForInput_SUBMIT_INPUT(c, e))
    [] e.type = "CANCEL_INPUT" /\ requestIdGuard(c, e)
         -> Snapshot("displaying", waitingForInput_CANCEL_INPUT(c, e))
    [] e.type = "SUBMIT_MULTI_FORM" /\ requestIdGuard(c, e)
         -> Snapshot("displaying", waitingForInput_SUBMIT_MULTI_FORM(c, e))
    [] e.type = "RESET" -> Snapshot("idle", waitingForInput_RESET(c, e))
    [] OTHER -> Snapshot("waitingForInput", c)

\* One macrostep of the machine
textMachine(s, c, e) ==
  CASE s = "idle" -> idle_on(c, e)
    [] s = "displaying" -> displaying_on(c, e)
    [] s = "waitingForInput" -> waitingForInput_on(c, e)

\* ------------------------------------------------------------ persistence
\* (a save that leaves the sidebar flag out, so it reads back as shown)
saveState_noSidebar(c) ==
  << [ text |-> c.text,
       contentType |-> c.contentType,
       history |-> c.history,
       userContext |-> c.userContext,
       inputRequest |-> c.inputRequest,
       inputStatus |-> c.inputStatus,
       multiFieldInput |-> c.multiFieldInput,
       sidebarVisible |-> TRUE ] >>

\* (a save that leaves the pending request out)
saveState_noRequest(c) ==
  << [ text |-> c.text,
       contentType |-> c.contentType,
       history |-> c.history,
       userContext |-> c.userContext,
       inputRequest |-> Null,
       inputStatus |-> c.inputStatus,
       multiFieldInput |-> c.multiFieldInput,
       sidebarVisible |-> c.sidebarVisible ] >>

\* saveState: the PersistedState written to STATE_FILE
saveState(c) ==
  << [ text |-> c.text,
       contentType |-> c.contentType,
       history |-> c.history,
       userContext |-> c.userContext,
       inputRequest |-> c.inputRequest,
       inputStatus |-> c.inputStatus,
       multiFieldInput |-> c.multiFieldInput,
       sidebarVisible |-> c.sidebarVisible ] >>

\* a STATE_FILE on which JSON.parse throws
Unparsable == << [unparsable |-> TRUE] >>

\* (a load that takes an unparsable file for the text to restore)
loadPersistedState_raw(f, freshId) ==
  IF f = Null THEN Null
  ELSE IF f = Unparsable
  THEN << [ text |-> "{", contentType |-> "text", history |-> << >>,
            userContext |-> EmptyMap, inputRequest |-> Null, inputStatus |-> "idle",
            multiFieldInput |-> Null, sidebarVisible |-> TRUE ] >>
  ELSE << [ text |-> f[1].text,
            contentType |-> f[1].contentType,
            history |-> f[1].history,
            userContext |-> f[1].userContext,
            inputRequest |-> IF f[1].inputRequest # Null
                             THEN <<[f[1].inputRequest[1] EXCEPT !.requestId = freshId]>>
                             ELSE Null,
            inputStatus |-> IF f[1].inputRequest # Null THEN "pending" ELSE f[1].inputStatus,
            multiFieldInput |-> f[1].multiFieldInput,
            sidebarVisible |-> f[1].sidebarVisible ] >>

\* (a load that hands the stored request back under its stored requestId)
loadPersistedState_sameId(f, freshId) ==
  IF f = Null \/ f = Unparsable THEN Null
  ELSE << [ text |-> f[1].text,
            contentType |-> f[1].contentType,
            history |-> f[1].history,
            userContext |-> f[1].userContext,
            inputRequest |-> f[1].inputRequest,
            inputStatus |-> IF f[1].inputRequest # Null THEN "pending" ELSE f[1].inputStatus,
            multiFieldInput |-> f[1].multiFieldInput,
            sidebarVisible |-> f[1].sidebarVisible ] >>

\* loadPersistedState: the parsed file with a pending request re-keyed to a
\* fresh requestId; Null when the file does not exist or cannot be parsed
loadPersistedState(f, freshId) ==
  IF f = Null \/ f = Unparsable THEN Null
  ELSE LET parsed == f[1]
           inputRequest ==
             IF parsed.inputRequest # Null
             THEN <<[parsed.inputRequest[1] EXCEPT !.requestId = freshId]>>
             ELSE Null
       IN << [ text |-> parsed.text,
               contentType |-> parsed.contentType,
               history |-> parsed.history,
               userContext |-> parsed.userContext,
               inputRequest |-> inputRequest,
               inputStatus |-> IF inputRequest # Null THEN "pending" ELSE parsed.inputStatus,
               multiFieldInput |-> parsed.multiFieldInput,
               sidebarVisible |-> parsed.sidebarVisible ] >>

\* (a start-up that always enters the machine's own initial state)
getActor_idle(persistedState) ==
  IF persistedState # Null
  THEN LET p == persistedState[1]
       IN Snapshot("idle",
                   [initialContext EXCEPT !.text = p.text,
                                          !.contentType = p.contentType,
                                          !.history = p.history,
                                          !.userContext = p.userContext,
                                          !.inputRequest = p.inputRequest,
                                          !.inputStatus = p.inputStatus,
                                          !.userInput = Null,
                                          !.multiFieldInput = p.multiFieldInput,
                                          !.sidebarVisible = p.sidebarVisible])
  ELSE Snapshot("idle", initialContext)

\* (a start-up that picks the initial state from the text alone)
getActor_byText(persistedState) ==
  IF persistedState # Null
  THEN LET p == persistedState[1]
           restoredContext ==
             [initialContext EXCEPT !.text = p.text,
                                    !.contentType = p.contentType,
                                    !.history = p.history,
                                    !.userContext = p.userContext,
                                    !.inputRequest = p.inputRequest,
                                    !.inputStatus = p.inputStatus,
                                    !.userInput = Null,
                                    !.multiFieldInput = p.multiFieldInput,
                                    !.sidebarVisible = p.sidebarVisible]
           initialState ==
             IF restoredContext.text # "" THEN "displaying" ELSE "idle"
       IN Snapshot(initialState, restoredContext)
  ELSE Snapshot("idle", initialContext)

\* getActor: the snapshot the actor starts from, given what was loaded
getActor(persistedState) ==
  IF persistedState # Null
  THEN LET p == persistedState[1]
           restoredContext ==
             [initialContext EXCEPT !.text = p.text,
                                    !.contentType = p.contentType,
                                    !.history = p.history,
                                    !.userContext = p.userContext,
                                    !.inputRequest = p.inputRequest,
                                    !.inputStatus = p.inputStatus,
                                    !.userInput = Null,
                                    !.multiFieldInput = p.multiFieldInput,
                                    !.sidebarVisible = p.sidebarVisible]
           initialState ==
             IF restoredContext.inputRequest # Null THEN "waitingForInput"
             ELSE IF restoredContext.text # "" THEN "displaying"
             ELSE "idle"
       IN Snapshot(initialState, restoredContext)
  ELSE Snapshot("idle", initialContext)

\* ------------------------------------------------- get_user_input waiters
\* The subscription callback of get_user_input, run on a new snapshot:
\* the results it passes to resolve() (none while the status is neither
\* submitted nor cancelled).  `by` records which request's resolution
\* produced the snapshot.
longPollResults(newContext, by) ==
  IF newContext.inputStatus = "submitted"
  THEN IF newContext.multiFieldInput # Null
       THEN << [status |-> "submitted", value |-> Null,
                values |-> newContext.multiFieldInput, by |-> by] >>
       ELSE << [status |-> "submitted", value |-> newContext.userInput,
                values |-> Null, by |-> by] >>
  ELSE IF newContext.inputStatus = "cancelled"
  THEN << [status |-> "cancelled", value |-> Null, values |-> Null, by |-> by] >>
  ELSE << >>

\* (a callback that resolves without unsubscribing)
longPollUnsubscribe_never(subs, newContext) == subs

\* subscription.unsubscribe() in the callback: every long-poll subscriber
\* leaves on a snapshot whose status is submitted or cancelled
longPollUnsubscribe(subs, newContext) ==
  IF newContext.inputStatus \in {"submitted", "cancelled"} THEN {} ELSE subs

pendingId(c) == IF c.inputRequest # Null THEN c.inputRequest[1].requestId ELSE 0

\* ------------------------------------------------------------- observers
\* (a list that offers undo in displaying whatever the history holds)
getAvailableActions_undoAlways(s, c) ==
  IF s = "waitingForInput"
  THEN << [name |-> "reset", reason |-> Null] >>
  ELSE << [name |-> "set_markdown", reason |-> Null],
          [name |-> "append", reason |-> Null] >>
       \o (IF s = "displaying"
           THEN << [name |-> "undo",
                    reason |-> <<"Can undo " \o ToString(Len(c.history)) \o " change(s)">>] >>
           ELSE << >>)
       \o << [name |-> "reset", reason |-> Null],
             [name |-> "toggle_sidebar", reason |-> Null] >>

\* getAvailableActions: the actions offered in (state, context), in the
\* order they are pushed, each with its reason when it has one
getAvailableActions(s, c) ==
  IF s = "waitingForInput"
  THEN << [name |-> "reset", reason |-> Null] >>
  ELSE << [name |-> "set_markdown", reason |-> Null],
          [name |-> "append", reason |-> Null] >>
       \o (IF s = "displaying" /\ Len(c.history) > 0
           THEN << [name |-> "undo",
                    reason |-> <<"Can undo " \o ToString(Len(c.history)) \o " change(s)">>] >>
           ELSE << >>)
       \o << [name |-> "reset", reason |-> Null],
             [name |-> "toggle_sidebar", reason |-> Null] >>

\* the data of a state_update message built from a snapshot
StateUpdate(s, c) ==
  [ currentState |-> s,
    text |-> c.text,
    contentType |-> c.contentType,
    historyCount |-> Len(c.history),
    lastAction |-> c.lastAction,
    lastError |-> c.lastError,
    inputRequest |-> c.inputRequest,
    inputStatus |-> c.inputStatus,
    userInput |-> c.userInput,
    userContext |-> c.userContext,
    availableActions |-> getAvailableActions(s, c) ]

\* (a broadcast that reaches only the connections that have a message already)
broadcastState_skips(cl, s, c) ==
  [k \in DOMAIN cl |-> IF cl[k].n > 1
                       THEN [n |-> cl[k].n + 1, last |-> StateUpdate(s, c)]
                       ELSE cl[k]]

\* broadcastState: one state_update to every open connection
broadcastState(cl, s, c) ==
  [k \in DOMAIN cl |-> [n |-> cl[k].n + 1, last |-> StateUpdate(s, c)]]

\* (the long-poll callbacks run before the persistence callback)
subscribers_pollFirst == <<"longPoll", "saveState">>

\* the actor's observers in subscription order: getActor subscribes the
\* persistence callback before start(), get_user_input subscribes later
subscribers == <<"saveState", "longPoll">>

\* what one observer does when notified of a new snapshot
notifyOne(sub, subs, newContext) ==
  IF sub = "saveState" THEN <<"saveState">>
  ELSE IF subs # {} /\ newContext.inputStatus \in {"submitted", "cancelled"}
  THEN <<"resolve">>
  ELSE << >>

\* the observers' effects, in the order the actor notifies them
notify(subs, newContext) ==
  notifyOne(subscribers[1], subs, newContext) \o notifyOne(subscribers[2], subs, newContext)

\* the reply of execute_action after the event was sent
executeActionReply(c) ==
  IF Truthy(c.lastError)
  THEN [success |-> FALSE, error |-> c.lastError]
  ELSE [success |-> TRUE, error |-> Null]

Success == [success |-> TRUE, error |-> Null]

\* the reply of show_input_form and show_multi_form: always success, with
\* the requestId the handler minted
ShowSuccess(requestId) == [success |-> TRUE, error |-> Null, requestId |-> requestId]

Call(via, op, reply) == [via |-> via, op |-> op, reply |-> reply]

\* ---------------------------------------------------------------- actions
\* spec.md section 8: SetContent("hi"), SetContent("bye"), Undo
Scenario ==
  << [type |-> "SET_MARKDOWN", markdown |-> "hi"],
     [type |-> "SET_MARKDOWN", markdown |-> "bye"],
     [type |-> "UNDO"] >>

ResolutionTypes == {"SUBMIT_INPUT", "CANCEL_INPUT", "SUBMIT_MULTI_FORM"}

\* the event is a submit or cancel carrying the id of the pending request
MatchingResolution(s, c, e) ==
  /\ s = "waitingForInput"
  /\ e.type \in ResolutionTypes
  /\ c.inputRequest # Null
  /\ e.requestId = c.inputRequest[1].requestId

\* No page has mounted its component yet: every useWebSocket instance is
\* as its declarations leave it.
noPage ==
  /\ component = [p \in Pages |-> "created"]
  /\ ws = [p \in Pages |-> Null]
  /\ readyState = [p \in Pages |-> << >>]
  /\ connected = [p \in Pages |-> FALSE]
  /\ reconnectTimer = [p \in Pages |-> Null]
  /\ timers = [p \in Pages |-> {}]
  /\ timerCount = [p \in Pages |-> 0]

\* The state once the process has started with no state file: getActor
\* creates the actor, subscribes the persistence callback and starts the
\* actor, which notifies its observers of the initial snapshot.
Init ==
  /\ state = "idle"
  /\ context = initialContext
  /\ writable = TRUE
  /\ budget = MaxSteps
  /\ file = saveState(initialContext)
  /\ nextId = 1
  /\ waiters = {}
  /\ waitingOn = EmptyMap
  /\ resolved = EmptyMap
  /\ nextWaiter = 0
  /\ steps = 0
  /\ lastEvent = Null
  /\ pre = Snapshot("idle", initialContext)
  /\ resolvedIds = {}
  /\ scenarioPos = 0
  /\ shownOver = HistoryEntry(initialContext)
  /\ clients = EmptyMap
  /\ effects = <<"saveState">>
  /\ lastCall = Call("start", "missing", Null)
  /\ staleIds = {}
  /\ noPage

\* The same start, on a disk that may refuse every write.
InitIO ==
  /\ state = "idle"
  /\ context = initialContext
  /\ writable \in BOOLEAN
  /\ budget = MaxIOSteps
  /\ file = IF writable THEN saveState(initialContext) ELSE Null
  /\ nextId = 1
  /\ waiters = {}
  /\ waitingOn = EmptyMap
  /\ resolved = EmptyMap
  /\ nextWaiter = 0
  /\ steps = 0
  /\ lastEvent = Null
  /\ pre = Snapshot("idle", initialContext)
  /\ resolvedIds = {}
  /\ scenarioPos = -1
  /\ shownOver = HistoryEntry(initialContext)
  /\ clients = EmptyMap
  /\ effects = <<"saveState">>
  /\ lastCall = Call("start", "missing", Null)
  /\ staleIds = {}
  /\ noPage

Tick ==
  /\ steps < budget
  /\ steps' = steps + 1
  /\ UNCHANGED <<budget, writable>>
  /\ UNCHANGED pageVars

\* (a send whose result is given up when the write fails)
sendEvent_rollsBack(e) ==
  LET snap == IF writable THEN textMachine(state, context, e)
                          ELSE Snapshot(state, context)
  IN /\ state' = snap.value
     /\ context' = snap.context
     /\ file' = IF writable THEN saveState(snap.context) ELSE file
     /\ waiters' = longPollUnsubscribe(waiters, snap.context)
     /\ resolved' = [w \in DOMAIN resolved |->
                       IF w \in waiters
                       THEN resolved[w] \o longPollResults(snap.context, pendingId(context))
                       ELSE resolved[w]]
     /\ lastEvent' = <<e>>
     /\ pre' = Snapshot(state, context)
     /\ resolvedIds' = IF MatchingResolution(state, context, e)
                       THEN resolvedIds \cup {e.requestId}
                       ELSE resolvedIds
     /\ scenarioPos' = IF scenarioPos = steps /\ steps < Len(Scenario)
                          /\ e = Scenario[steps + 1]
                       THEN steps + 1
                       ELSE -1
     /\ shownOver' = IF e.type \in {"SHOW_INPUT", "SHOW_MULTI_FORM"}
                        /\ state \in {"idle", "displaying"}
                     THEN HistoryEntry(context)
                     ELSE shownOver
     /\ UNCHANGED <<nextWaiter, waitingOn, staleIds>>

\* sendEvent: actor.send(event), after which the actor notifies its
\* subscribers with the new snapshot, in subscription order: first the
\* persistence subscriber of getActor, then the long-poll subscribers.
\* saveState catches a failing write, which leaves the file as it was.
sendEvent(e) ==
  LET snap == textMachine(state, context, e)
  IN /\ state' = snap.value
     /\ context' = snap.context
     /\ file' = IF writable THEN saveState(snap.context) ELSE file
     /\ waiters' = longPollUnsubscribe(waiters, snap.context)
     /\ resolved' = [w \in DOMAIN resolved |->
                       IF w \in waiters
                       THEN resolved[w] \o longPollResults(snap.context, pendingId(context))
                       ELSE resolved[w]]
     /\ lastEvent' = <<e>>
     /\ pre' = Snapshot(state, context)
     /\ resolvedIds' = IF MatchingResolution(state, context, e)
                       THEN resolvedIds \cup {e.requestId}
                       ELSE resolvedIds
     /\ scenarioPos' = IF scenarioPos = steps /\ steps < Len(Scenario)
                          /\ e = Scenario[steps + 1]
                       THEN steps + 1
                       ELSE -1
     /\ shownOver' = IF e.type \in {"SHOW_INPUT", "SHOW_MULTI_FORM"}
                        /\ state \in {"idle", "displaying"}
                     THEN HistoryEntry(context)
                     ELSE shownOver
     /\ UNCHANGED <<nextWaiter, waitingOn, staleIds>>

\* a handler that sends the event and then calls broadcastState with the
\* new snapshot
sendAndBroadcast(e) ==
  /\ sendEvent(e)
  /\ clients' = broadcastState(clients, state', context')
  /\ effects' = notify(waiters, context') \o <<"broadcastState">>

\* a bare sendEvent: nothing is broadcast
sendOnly(e) ==
  /\ sendEvent(e)
  /\ effects' = notify(waiters, context')
  /\ UNCHANGED clients

\* execute_action, set_markdown
SetMarkdown ==
  \E m \in Markdowns :
    /\ Tick
    /\ sendAndBroadcast([type |-> "SET_MARKDOWN", markdown |-> m])
    /\ lastCall' = Call("execute_action", "set_markdown", <<executeActionReply(context')>>)
    /\ UNCHANGED nextId

AppendText ==
  \E t \in AppendTexts :
    /\ Tick
    /\ sendOnly([type |-> "APPEND", text |-> t])
    /\ lastCall' = Call("sendEvent", "APPEND", Null)
    /\ UNCHANGED nextId

\* execute_action, undo
Undo ==
  /\ Tick
  /\ sendAndBroadcast([type |-> "UNDO"])
  /\ lastCall' = Call("execute_action", "undo", <<executeActionReply(context')>>)
  /\ UNCHANGED nextId

\* execute_action, reset
Reset ==
  /\ Tick
  /\ sendAndBroadcast([type |-> "RESET"])
  /\ lastCall' = Call("execute_action", "reset", <<executeActionReply(context')>>)
  /\ UNCHANGED nextId

\* show_input_form: mints the requestId, builds the request, sends SHOW_INPUT
show_input_form ==
  \E key \in Keys, content \in Contents :
    /\ Tick
    /\ sendAndBroadcast([type |-> "SHOW_INPUT",
                         request |-> [prompt |-> "name?", inputType |-> "text",
                                      requestId |-> nextId, key |-> key,
                                      content |-> content]])
    /\ lastCall' = Call("show_input_form", "", <<ShowSuccess(nextId)>>)
    /\ nextId' = nextId + 1

\* show_multi_form: mints the requestId, builds the request, sends SHOW_MULTI_FORM
show_multi_form ==
  \E fields \in FieldLists, content \in Contents :
    /\ Tick
    /\ sendAndBroadcast([type |-> "SHOW_MULTI_FORM",
                         request |-> [fields |-> fields, content |-> content,
                                      requestId |-> nextId]])
    /\ lastCall' = Call("show_multi_form", "", <<ShowSuccess(nextId)>>)
    /\ nextId' = nextId + 1

\* request ids a client can send: every id minted so far, and 0 for an id
\* that was never minted
KnownIds == 0 .. (nextId - 1)

\* handleIncomingMessage, submit_input
SubmitInput ==
  \E v \in SubmitValues, id \in KnownIds :
    /\ Tick
    /\ sendAndBroadcast([type |-> "SUBMIT_INPUT", value |-> v, requestId |-> id])
    /\ lastCall' = Call("message", "submit_input", Null)
    /\ UNCHANGED nextId

\* handleIncomingMessage, cancel_input
CancelInput ==
  \E id \in KnownIds :
    /\ Tick
    /\ sendAndBroadcast([type |-> "CANCEL_INPUT", requestId |-> id])
    /\ lastCall' = Call("message", "cancel_input", Null)
    /\ UNCHANGED nextId

SubmitMultiForm ==
  \E vs \in MultiValues, id \in KnownIds :
    /\ Tick
    /\ sendOnly([type |-> "SUBMIT_MULTI_FORM", values |-> vs, requestId |-> id])
    /\ lastCall' = Call("sendEvent", "SUBMIT_MULTI_FORM", Null)
    /\ UNCHANGED nextId

set_user_context ==
  \E k \in ContextKeys, v \in ContextValues :
    /\ Tick
    /\ sendAndBroadcast([type |-> "SET_USER_CONTEXT", key |-> k, value |-> v])
    /\ lastCall' = Call("set_user_context", "", <<Success>>)
    /\ UNCHANGED nextId

clear_user_context ==
  /\ Tick
  /\ sendAndBroadcast([type |-> "CLEAR_USER_CONTEXT"])
  /\ lastCall' = Call("clear_user_context", "", <<Success>>)
  /\ UNCHANGED nextId

ToggleSidebar ==
  /\ Tick
  /\ sendOnly([type |-> "TOGGLE_SIDEBAR"])
  /\ lastCall' = Call("sendEvent", "TOGGLE_SIDEBAR", Null)
  /\ UNCHANGED nextId

\* get_user_input reached in waitingForInput with the status neither
\* submitted nor cancelled: subscribes a long-poll waiter to the actor
get_user_input ==
  /\ context.inputStatus \notin {"submitted", "cancelled"}
  /\ state = "waitingForInput"
  /\ Tick
  /\ nextWaiter' = nextWaiter + 1
  /\ waiters' = waiters \cup {nextWaiter + 1}
  /\ waitingOn' = (nextWaiter + 1 :> pendingId(context)) @@ waitingOn
  /\ resolved' = (nextWaiter + 1 :> << >>) @@ resolved
  /\ scenarioPos' = -1
  /\ effects' = << >>
  /\ lastCall' = Call("get_user_input", "", Null)
  /\ UNCHANGED <<state, context, file, nextId, lastEvent, pre, resolvedIds, shownOver, clients, staleIds>>

\* The first getActor() of a new process, given what it finds on disk: it
\* loads the state file, creates and starts the actor, whose observers
\* (the persistence callback) are notified of the initial snapshot.  The
\* subscriptions and connections of the old process are gone.
start(onDisk) ==
  /\ LET snap == getActor(loadPersistedState(onDisk, nextId))
     IN /\ state' = snap.value
        /\ context' = snap.context
        /\ nextId' = IF snap.context.inputRequest # Null THEN nextId + 1 ELSE nextId
        /\ file' = IF writable THEN saveState(snap.context) ELSE onDisk
  /\ waiters' = {}
  /\ waitingOn' = EmptyMap
  /\ resolved' = EmptyMap
  /\ nextWaiter' = 0
  /\ lastEvent' = Null
  /\ pre' = Snapshot(state, context)
  /\ scenarioPos' = -1
  /\ clients' = EmptyMap
  /\ effects' = <<"saveState">>
  /\ lastCall' = Call("start",
                      IF onDisk = Null THEN "missing"
                      ELSE IF onDisk = Unparsable THEN "unparsable" ELSE "loaded",
                      Null)
  /\ staleIds' = IF onDisk \notin {Null, Unparsable}
                    /\ onDisk[1].inputRequest # Null
                 THEN staleIds \cup {onDisk[1].inputRequest[1].requestId}
                 ELSE staleIds
  /\ UNCHANGED <<resolvedIds, shownOver>>

\* The process exits and is started again.
Restart ==
  /\ Tick
  /\ start(file)

\* The process is started again after the state file was deleted or damaged.
RestartDamaged ==
  \E onDisk \in {Null, Unparsable} :
    /\ Tick
    /\ start(onDisk)

\* a step that sends no event to the actor
noEvent ==
  /\ lastEvent' = Null
  /\ pre' = Snapshot(state, context)
  /\ scenarioPos' = -1
  /\ UNCHANGED <<state, context, file, nextId, waiters, waitingOn, resolved,
                 nextWaiter, resolvedIds, shownOver, staleIds>>

\* what get_user_input returns without blocking: the stored result when
\* the status is submitted or cancelled, and the idle reply otherwise
getUserInputReply(c) ==
  IF c.inputStatus = "submitted"
  THEN IF c.multiFieldInput # Null
       THEN [status |-> "submitted", value |-> Null, values |-> c.multiFieldInput]
       ELSE [status |-> "submitted", value |-> c.userInput, values |-> Null]
  ELSE IF c.inputStatus = "cancelled"
       THEN [status |-> "cancelled", value |-> Null, values |-> Null]
       ELSE [status |-> "idle", value |-> Null, values |-> Null]

\* get_user_input reached with the status submitted or cancelled, or
\* outside waitingForInput: returns at once, sends nothing to the actor
get_user_input_returns ==
  /\ \/ context.inputStatus \in {"submitted", "cancelled"}
     \/ state # "waitingForInput"
  /\ Tick
  /\ noEvent
  /\ effects' = << >>
  /\ lastCall' = Call("get_user_input", "", <<getUserInputReply(context)>>)
  /\ UNCHANGED clients

\* wss.on('connection'): the connection joins clients and is sent the
\* current state
ClientConnects ==
  \E k \in Clients \ DOMAIN clients :
    /\ Tick
    /\ noEvent
    /\ clients' = (k :> [n |-> 1, last |-> StateUpdate(state, context)]) @@ clients
    /\ effects' = <<"send">>
    /\ lastCall' = Call("connection", "", Null)

\* ws.on('close'): the connection leaves clients
ClientCloses ==
  \E k \in DOMAIN clients :
    /\ Tick
    /\ noEvent
    /\ clients' = [j \in DOMAIN clients \ {k} |-> clients[j]]
    /\ effects' = << >>
    /\ lastCall' = Call("close", "", Null)

\* execute_action with an action name outside the switch: the default case
\* returns an error reply
UnknownAction ==
  \E a \in UnknownActions :
    /\ Tick
    /\ noEvent
    /\ effects' = << >>
    /\ lastCall' = Call("execute_action", a,
                        <<[success |-> FALSE,
                           error |-> <<"Unknown action: " \o a
                                       \o ". Use get_current_state to see available actions.">>]>>)
    /\ UNCHANGED clients

\* handleIncomingMessage with a type outside the switch: the default case
\* logs to the console and returns
UnknownMessage ==
  \E t \in UnknownMessages :
    /\ Tick
    /\ noEvent
    /\ effects' = <<"console.error">>
    /\ lastCall' = Call("message", t, Null)
    /\ UNCHANGED clients

Next ==
  \/ SetMarkdown
  \/ AppendText
  \/ Undo
  \/ Reset
  \/ show_input_form
  \/ show_multi_form
  \/ SubmitInput
  \/ CancelInput
  \/ SubmitMultiForm
  \/ set_user_context
  \/ clear_user_context
  \/ ToggleSidebar
  \/ get_user_input
  \/ Restart

Spec == Init /\ [][Next]_vars

\* The server with its WebSocket observers, unknown operations, a state
\* file that can be lost or damaged between runs, and a disk that may
\* refuse writes.
NextIO ==
  \/ Next
  \/ RestartDamaged
  \/ ClientConnects
  \/ ClientCloses
  \/ UnknownAction
  \/ UnknownMessage

SpecIO == InitIO /\ [][NextIO]_vars

\* The server with a controller that also polls get_user_input when no
\* request is pending.
InitPoll ==
  /\ state = "idle"
  /\ context = initialContext
  /\ writable = TRUE
  /\ budget = MaxPollSteps
  /\ file = saveState(initialContext)
  /\ nextId = 1
  /\ waiters = {}
  /\ waitingOn = EmptyMap
  /\ resolved = EmptyMap
  /\ nextWaiter = 0
  /\ steps = 0
  /\ lastEvent = Null
  /\ pre = Snapshot("idle", initialContext)
  /\ resolvedIds = {}
  /\ scenarioPos = -1
  /\ shownOver = HistoryEntry(initialContext)
  /\ clients = EmptyMap
  /\ effects = <<"saveState">>
  /\ lastCall = Call("start", "missing", Null)
  /\ staleIds = {}
  /\ noPage

NextPoll ==
  \/ Next
  \/ get_user_input_returns

SpecPoll == InitPoll /\ [][NextPoll]_vars

\* ------------------------------------------------------------ useWebSocket
\* connect(): the page creates a socket, which starts connecting, and
\* keeps it in `ws`
connect(p) ==
  /\ Len(readyState[p]) < MaxSockets
  /\ readyState' = [readyState EXCEPT ![p] = Append(@, "CONNECTING")]
  /\ ws' = [ws EXCEPT ![p] = <<Len(readyState[p]) + 1>>]

\* scheduleReconnect(): sets a 2 s timeout unless reconnectTimer is set
scheduleReconnect(p) ==
  IF reconnectTimer[p] # Null
  THEN UNCHANGED <<reconnectTimer, timers, timerCount>>
  ELSE /\ reconnectTimer' = [reconnectTimer EXCEPT ![p] = <<timerCount[p] + 1>>]
       /\ timers' = [timers EXCEPT ![p] = @ \cup {timerCount[p] + 1}]
       /\ timerCount' = [timerCount EXCEPT ![p] = @ + 1]

\* onMounted(() => connect())
onMounted ==
  \E p \in Pages :
    /\ component[p] = "created"
    /\ component' = [component EXCEPT ![p] = "mounted"]
    /\ connect(p)
    /\ UNCHANGED <<connected, reconnectTimer, timers, timerCount>>
    /\ UNCHANGED serverVars

\* ws.onopen of the k-th socket of a page
onopen ==
  \E p \in Pages : \E k \in DOMAIN readyState[p] :
    /\ readyState[p][k] = "CONNECTING"
    /\ readyState' = [readyState EXCEPT ![p][k] = "OPEN"]
    /\ connected' = [connected EXCEPT ![p] = TRUE]
    /\ UNCHANGED <<component, ws, reconnectTimer, timers, timerCount>>
    /\ UNCHANGED serverVars

\* ws.onclose of the k-th socket of a page: the connection failed, was
\* lost, or finished closing after close()
onclose ==
  \E p \in Pages : \E k \in DOMAIN readyState[p] :
    /\ readyState[p][k] # "CLOSED"
    /\ readyState' = [readyState EXCEPT ![p][k] = "CLOSED"]
    /\ connected' = [connected EXCEPT ![p] = FALSE]
    /\ scheduleReconnect(p)
    /\ UNCHANGED <<component, ws>>
    /\ UNCHANGED serverVars

\* the callback of a timeout set by scheduleReconnect
reconnectTimeout ==
  \E p \in Pages : \E t \in timers[p] :
    /\ timers' = [timers EXCEPT ![p] = @ \ {t}]
    /\ reconnectTimer' = [reconnectTimer EXCEPT ![p] = Null]
    /\ connect(p)
    /\ UNCHANGED <<component, connected, timerCount>>
    /\ UNCHANGED serverVars

\* onUnmounted: clearTimeout(reconnectTimer) if it is set, ws.close() if
\* there is a socket; close() starts the closing handshake of a socket
\* that is connecting or open
onUnmounted ==
  \E p \in Pages :
    /\ component[p] = "mounted"
    /\ component' = [component EXCEPT ![p] = "unmounted"]
    /\ timers' = IF reconnectTimer[p] # Null
                 THEN [timers EXCEPT ![p] = @ \ {reconnectTimer[p][1]}]
                 ELSE timers
    /\ readyState' = IF ws[p] # Null /\ readyState[p][ws[p][1]] \in {"CONNECTING", "OPEN"}
                     THEN [readyState EXCEPT ![p][ws[p][1]] = "CLOSING"]
                     ELSE readyState
    /\ UNCHANGED <<ws, connected, reconnectTimer, timerCount>>
    /\ UNCHANGED serverVars

\* The pages using useWebSocket against a server that stays as started.
NextPage ==
  \/ onMounted
  \/ onopen
  \/ onclose
  \/ reconnectTimeout
  \/ onUnmounted

SpecPage == Init /\ [][NextPage]_vars

\* ================================================================ claims
sent == lastEvent # Null
ev == lastEvent[1]

\* every field of the context except lastError
SameButLastError(c, d) == [c EXCEPT !.lastError = Null] = [d EXCEPT !.lastError = Null]

\* C1: in every reachable state, fresh or restored from the state file,
\* the pending request (inputRequest) is non-null if and only if the
\* machine state is waitingForInput.
C1_PendingIffWaiting ==
  (context.inputRequest # Null) <=> (state = "waitingForInput")

\* a restart has just restored a pending request
C1_Witness ==
  /\ steps > 0 /\ ~sent
  /\ pre.value = "waitingForInput"
  /\ state = "waitingForInput"
  /\ context.inputRequest # Null
  /\ pendingId(context) # pendingId(pre.context)

\* C2: a long-poll waiter registered while request A is pending receives
\* only a result produced by the Submit/Cancel that resolved A, never one
\* produced by the resolution of a later request B.
C2_WaiterOnlyOwnRequest ==
  \A w \in DOMAIN resolved :
    \A i \in 1 .. Len(resolved[w]) : resolved[w][i].by = waitingOn[w]

\* the result a waiter gets when the event just sent resolved the request
ResolutionResult ==
  CASE ev.type = "SUBMIT_INPUT" ->
         [status |-> "submitted", value |-> <<ev.value>>, values |-> Null, by |-> ev.requestId]
    [] ev.type = "SUBMIT_MULTI_FORM" ->
         [status |-> "submitted", value |-> Null, values |-> <<ev.values>>, by |-> ev.requestId]
    [] ev.type = "CANCEL_INPUT" ->
         [status |-> "cancelled", value |-> Null, values |-> Null, by |-> ev.requestId]

C3_FulfilledAtResolution ==
  (sent /\ MatchingResolution(pre.value, pre.context, ev)) =>
    \A w \in DOMAIN resolved :
      waitingOn[w] = ev.requestId =>
        /\ resolved[w] = <<ResolutionResult>>
        /\ w \notin waiters

C3_NeverAgain ==
  \A w \in DOMAIN resolved :
    (resolved[w] # << >> /\ w \in DOMAIN resolved') => resolved'[w] = resolved[w]

\* C3: when the pending request X is resolved by a submit or cancel
\* carrying X, every long-poll waiter registered against X is fulfilled
\* exactly once with that resolution and leaves the set of waiters at that
\* moment; no later snapshot fulfils it a second time.
C3_FulfilledExactlyOnce ==
  [](C3_FulfilledAtResolution) /\ [][C3_NeverAgain]_vars

\* two waiters of the same request were fulfilled by its resolution and a
\* later command has been processed since
C3_Witness ==
  /\ sent /\ ~MatchingResolution(pre.value, pre.context, ev)
  /\ \E w1, w2 \in DOMAIN resolved :
       /\ w1 # w2
       /\ Len(resolved[w1]) = 1 /\ Len(resolved[w2]) = 1
       /\ resolved[w1][1].by = waitingOn[w1]
       /\ resolved[w2][1].status = "submitted"

\* the event just sent is a submit or cancel whose id was resolved earlier
StaleResolution ==
  /\ sent
  /\ ev.type \in ResolutionTypes
  /\ ev.requestId \in resolvedIds
  /\ ~MatchingResolution(pre.value, pre.context, ev)

\* C4: a resolved request id can never be resolved again: a later submit
\* or cancel carrying it changes neither the machine state nor
\* inputStatus, userInput, multiFieldInput, userContext or the displayed
\* content.
C4_ResolvedIdNeverAgain ==
  StaleResolution =>
    /\ state = pre.value
    /\ context.inputStatus = pre.context.inputStatus
    /\ context.userInput = pre.context.userInput
    /\ context.multiFieldInput = pre.context.multiFieldInput
    /\ context.userContext = pre.context.userContext
    /\ context.text = pre.context.text
    /\ context.contentType = pre.context.contentType

\* the stale id is sent while a newer request is pending
C4_Witness ==
  /\ StaleResolution
  /\ pre.value = "waitingForInput"
  /\ state = "waitingForInput"

\* C5: in waitingForInput a SubmitSingle with a non-matching id leaves the
\* state waitingForInput and the pending request unchanged and sets
\* lastError; with the matching id the machine moves to displaying and
\* the pending request is cleared.
C5_MismatchRecordsError ==
  (sent /\ ev.type = "SUBMIT_INPUT" /\ pre.value = "waitingForInput") =>
    IF ev.requestId = pendingId(pre.context)
    THEN state = "displaying" /\ context.inputRequest = Null
    ELSE /\ state = "waitingForInput"
         /\ context.inputRequest = pre.context.inputRequest
         /\ context.lastError # Null

\* the commands the transition table of spec.md section 4.1 allows in a state
Allowed(s, type) ==
  CASE type \in {"SET_MARKDOWN", "APPEND", "SHOW_INPUT", "SHOW_MULTI_FORM",
                 "SET_USER_CONTEXT", "CLEAR_USER_CONTEXT"} -> s \in {"idle", "displaying"}
    [] type = "UNDO" -> s = "displaying"
    [] type = "RESET" -> s \in {"displaying", "waitingForInput"}
    [] type \in ResolutionTypes -> s = "waitingForInput"
    [] type = "TOGGLE_SIDEBAR" -> TRUE

\* C6: a command attempted in a state where the transition table does not
\* allow it is recorded as a guard violation: the resulting snapshot has a
\* non-null lastError.
C6_WrongStateRecordsError ==
  (sent /\ ~Allowed(pre.value, ev.type)) => context.lastError # Null

\* the lastAction label of each command
ActionName(type) ==
  CASE type = "SET_MARKDOWN" -> "set_markdown"
    [] type = "APPEND" -> "append"
    [] type = "UNDO" -> "undo"
    [] type = "RESET" -> "reset"
    [] type = "SHOW_INPUT" -> "show_input"
    [] type = "SHOW_MULTI_FORM" -> "show_multi_form"
    [] type = "SUBMIT_INPUT" -> "input_submitted"
    [] type = "SUBMIT_MULTI_FORM" -> "multi_form_submitted"
    [] type = "CANCEL_INPUT" -> "input_cancelled"
    [] type = "SET_USER_CONTEXT" -> "set_user_context"
    [] type = "CLEAR_USER_CONTEXT" -> "clear_user_context"
    [] type = "TOGGLE_SIDEBAR" -> "toggle_sidebar"

\* the event just sent was applied: a transition for it was enabled
Successful ==
  /\ sent
  /\ CASE ev.type \in {"SET_MARKDOWN", "APPEND", "SHOW_INPUT", "SHOW_MULTI_FORM",
                       "SET_USER_CONTEXT", "CLEAR_USER_CONTEXT", "TOGGLE_SIDEBAR"}
             -> pre.value \in {"idle", "displaying"}
       [] ev.type = "UNDO" -> pre.value = "displaying" /\ Len(pre.context.history) > 0
       [] ev.type = "RESET" -> pre.value \in {"displaying", "waitingForInput"}
       [] ev.type \in ResolutionTypes -> MatchingResolution(pre.value, pre.context, ev)

\* C7: every successful transition leaves lastError null and lastAction
\* equal to the name of the command that was just applied.
C7_SuccessSetsLastAction ==
  Successful =>
    /\ context.lastError = Null
    /\ context.lastAction = <<ActionName(ev.type)>>

\* C8: while a request is pending, every command other than Reset and a
\* submit or cancel with the matching id leaves the machine state and
\* every context field except lastError unchanged.
C8_PendingFrame ==
  ( /\ sent
    /\ pre.value = "waitingForInput"
    /\ ev.type # "RESET"
    /\ ~MatchingResolution(pre.value, pre.context, ev) ) =>
      /\ state = pre.value
      /\ SameButLastError(context, pre.context)

\* a toggle_sidebar, a set_markdown or a set_user_context was sent while a
\* request was pending
C8_Witness ==
  /\ sent
  /\ pre.value = "waitingForInput"
  /\ ev.type \in {"TOGGLE_SIDEBAR", "SET_MARKDOWN", "SET_USER_CONTEXT"}
  /\ context.inputRequest # Null

ContentChanging == {"SET_MARKDOWN", "APPEND"}

\* C9: history is a correct stack: an Undo that follows a SetContent or
\* Append applied in idle or displaying restores the content and kind
\* displayed immediately before that command, and the history is one
\* shorter than before the Undo.
C9_UndoRestoresPrevious ==
  [][ ( /\ sent
        /\ ev.type \in ContentChanging
        /\ pre.value \in {"idle", "displaying"}
        /\ lastEvent' = <<[type |-> "UNDO"]>>
        /\ steps' = steps + 1 ) =>
          /\ context'.text = pre.context.text
          /\ context'.contentType = pre.context.contentType
          /\ Len(context'.history) = Len(context.history) - 1 ]_vars

\* an Undo was applied right after the second of two content changes and
\* took back a change of both content and kind
C9_Witness ==
  /\ sent /\ ev.type = "UNDO"
  /\ pre.context.lastAction \in {<<"set_markdown">>, <<"append">>}
  /\ Len(pre.context.history) = 2
  /\ Len(context.history) = 1
  /\ context.text # pre.context.text
  /\ context.text # ""

\* C10 as stated: from a fresh idle machine, SetContent("hi"),
\* SetContent("bye"), Undo ends with content "hi", a history of length 0
\* and state displaying.
C10_ScenarioAsStated ==
  scenarioPos = Len(Scenario) =>
    /\ context.text = "hi"
    /\ Len(context.history) = 0
    /\ state = "displaying"

\* C10 amended: from a fresh idle machine, SetContent("hi"),
\* SetContent("bye"), Undo ends with content "hi", a history of length 1
\* (the empty initial content) and state displaying.
C10_Scenario ==
  scenarioPos = Len(Scenario) =>
    /\ context.text = "hi"
    /\ context.contentType = "markdown"
    /\ context.history = << [text |-> "", contentType |-> "text"] >>
    /\ state = "displaying"

C10_Witness ==
  /\ scenarioPos = Len(Scenario)
  /\ sent /\ ev.type = "UNDO"
  /\ pre.context.text = "bye"

\* C11: Undo in displaying with an empty history leaves the machine state,
\* displayed content, content kind, history, userContext and lastAction
\* unchanged and sets lastError to a non-null message.
C11_UndoOnEmptyHistory ==
  (sent /\ ev.type = "UNDO" /\ pre.value = "displaying"
        /\ Len(pre.context.history) = 0) =>
    /\ state = "displaying"
    /\ context.text = pre.context.text
    /\ context.contentType = pre.context.contentType
    /\ context.history = pre.context.history
    /\ context.userContext = pre.context.userContext
    /\ context.lastAction = pre.context.lastAction
    /\ context.lastError # Null

\* an Undo was sent in displaying with nothing to undo, some content shown
\* and no error recorded before
C11_Witness ==
  /\ sent /\ ev.type = "UNDO"
  /\ pre.value = "displaying"
  /\ Len(pre.context.history) = 0
  /\ pre.context.text # ""
  /\ pre.context.lastError = Null

\* C12: Reset issued in displaying or waitingForInput moves the machine to
\* idle with empty history, no pending request, empty displayed content
\* and inputStatus idle, while userContext is exactly what it was.
C12_ResetKeepsUserContext ==
  (sent /\ ev.type = "RESET" /\ pre.value \in {"displaying", "waitingForInput"}) =>
    /\ state = "idle"
    /\ context.history = << >>
    /\ context.inputRequest = Null
    /\ context.text = ""
    /\ context.inputStatus = "idle"
    /\ context.userContext = pre.context.userContext

\* a Reset was applied in displaying with history, content and a
\* non-empty userContext
C12_Witness ==
  /\ sent /\ ev.type = "RESET"
  /\ pre.value = "displaying"
  /\ pre.context.history # << >>
  /\ pre.context.text # ""
  /\ pre.context.userContext # EmptyMap
  /\ state = "idle"

\* a SubmitSingle with the matching id was sent while a single-field
\* request was pending
SingleSubmitted ==
  /\ sent
  /\ ev.type = "SUBMIT_INPUT"
  /\ MatchingResolution(pre.value, pre.context, ev)
  /\ ~isMultiFieldRequest(pre.context.inputRequest)

\* C13: SubmitSingle(value, id) with the matching id on a pending
\* single-field request sets userInput to value and inputStatus to
\* submitted, moves to displaying and, if and only if the request carried a
\* key, sets userContext[key] to value; every other key is unchanged.
C13_SubmitSingle ==
  SingleSubmitted =>
    LET key == pre.context.inputRequest[1].key
    IN /\ context.userInput = <<ev.value>>
       /\ context.inputStatus = "submitted"
       /\ state = "displaying"
       /\ key # Null =>
            /\ key[1] \in DOMAIN context.userContext
            /\ context.userContext[key[1]] = ev.value
            /\ DOMAIN context.userContext = DOMAIN pre.context.userContext \cup {key[1]}
            /\ \A k \in DOMAIN pre.context.userContext \ {key[1]} :
                 context.userContext[k] = pre.context.userContext[k]
       /\ key = Null => context.userContext = pre.context.userContext

\* the submitted value replaced an older value stored under the request's
\* key while another key was present
C13_Witness ==
  /\ SingleSubmitted
  /\ pre.context.inputRequest[1].key # Null
  /\ pre.context.inputRequest[1].key[1] \in DOMAIN pre.context.userContext
  /\ pre.context.userContext[pre.context.inputRequest[1].key[1]] # ev.value
  /\ DOMAIN pre.context.userContext # {pre.context.inputRequest[1].key[1]}

\* the keys of the fields of a multi-field request
FieldKeys(request) == {request.fields[i] : i \in 1 .. Len(request.fields)}

\* a SubmitMulti with the matching id was sent while a multi-field request
\* was pending
MultiSubmitted ==
  /\ sent
  /\ ev.type = "SUBMIT_MULTI_FORM"
  /\ MatchingResolution(pre.value, pre.context, ev)
  /\ isMultiFieldRequest(pre.context.inputRequest)

\* C14: SubmitMulti(values, id) with the matching id sets multiFieldInput to
\* values and inputStatus to submitted, clears the pending request, moves to
\* displaying and writes userContext[key] = value for every field key of the
\* pending multi-field request; keys that are not field keys are unchanged.
C14_SubmitMultiWritesFieldKeys ==
  MultiSubmitted =>
    LET keys == FieldKeys(pre.context.inputRequest[1])
        old == pre.context.userContext
        new == context.userContext
    IN /\ context.multiFieldInput = <<ev.values>>
       /\ context.inputStatus = "submitted"
       /\ context.inputRequest = Null
       /\ state = "displaying"
       /\ \A k \in keys :
            /\ k \in DOMAIN ev.values
            /\ k \in DOMAIN new
            /\ new[k] = ev.values[k]
       /\ \A k \in (DOMAIN old \cup DOMAIN new) \ keys :
            /\ k \in DOMAIN old
            /\ k \in DOMAIN new
            /\ new[k] = old[k]

\* a submit or cancel with the matching id was sent while a request was
\* pending
Resolved ==
  /\ sent
  /\ MatchingResolution(pre.value, pre.context, ev)

\* C15: when a pending request is resolved by a matching submit or cancel,
\* the displayed content becomes the request's content with kind markdown if
\* the request carried content; otherwise content and kind are exactly what
\* they were before the request was shown.
C15_ContentPreservation ==
  Resolved =>
    IF Truthy(pre.context.inputRequest[1].content)
    THEN /\ context.text = pre.context.inputRequest[1].content[1]
         /\ context.contentType = "markdown"
    ELSE /\ context.text = shownOver.text
         /\ context.contentType = shownOver.contentType

\* a request carrying content was resolved over a different, non-empty
\* displayed content
C15_Witness ==
  /\ Resolved
  /\ Truthy(pre.context.inputRequest[1].content)
  /\ shownOver.text # ""
  /\ shownOver.text # pre.context.inputRequest[1].content[1]

\* C16: CancelInput with the matching id sets inputStatus to cancelled,
\* clears the pending request and moves to displaying; userContext and
\* history are unchanged and userInput and multiFieldInput are null.
C16_CancelInput ==
  (Resolved /\ ev.type = "CANCEL_INPUT") =>
    /\ context.inputStatus = "cancelled"
    /\ context.inputRequest = Null
    /\ state = "displaying"
    /\ context.userContext = pre.context.userContext
    /\ context.history = pre.context.history
    /\ context.userInput = Null
    /\ context.multiFieldInput = Null

\* a request shown over a non-empty history and userContext was cancelled
C16_Witness ==
  /\ Resolved
  /\ ev.type = "CANCEL_INPUT"
  /\ pre.context.history # << >>
  /\ pre.context.userContext # EmptyMap

\* a ShowInput or ShowMultiForm was sent
ShowSent == sent /\ ev.type \in {"SHOW_INPUT", "SHOW_MULTI_FORM"}

\* C17: ShowInput and ShowMultiForm take effect only in idle or displaying,
\* where they install the request, set inputStatus to pending and move to
\* waitingForInput leaving content and history untouched; while a request is
\* pending they do not replace it: the request and its id stay as they were.
C17_OneOutstandingRequest ==
  ShowSent =>
    IF pre.value \in {"idle", "displaying"}
    THEN /\ context.inputRequest = <<ev.request>>
         /\ context.inputStatus = "pending"
         /\ state = "waitingForInput"
         /\ context.text = pre.context.text
         /\ context.contentType = pre.context.contentType
         /\ context.history = pre.context.history
    ELSE /\ state = "waitingForInput"
         /\ context.inputRequest = pre.context.inputRequest
         /\ context.inputStatus = "pending"

\* a second request, with a fresh id, was shown while one was pending
C17_Witness ==
  /\ ShowSent
  /\ pre.value = "waitingForInput"
  /\ ev.request.requestId # pre.context.inputRequest[1].requestId
  /\ state = "waitingForInput"

\* the last step left history, displayed content and kind as they were
HistoryUnchanged ==
  /\ context.history = pre.context.history
  /\ context.text = pre.context.text
  /\ context.contentType = pre.context.contentType

\* the last step pushed exactly the old (content, kind)
HistoryPushed ==
  context.history = Append(pre.context.history, HistoryEntry(pre.context))

\* the last step was an Undo that removed exactly the last entry
HistoryPopped ==
  /\ sent /\ ev.type = "UNDO"
  /\ Len(pre.context.history) > 0
  /\ context.history = SubSeq(pre.context.history, 1, Len(pre.context.history) - 1)

\* C18 as stated: in every step, either history and the displayed content
\* are unchanged, or history grew by exactly the old (content, kind), or
\* (Undo) it lost exactly its last entry.
C18_HistoryAsStated ==
  HistoryUnchanged \/ HistoryPushed \/ HistoryPopped

\* C18: history is mutated only by a push of the previous (content, kind),
\* by a pop on Undo, or by Reset, which empties it: in every step other than
\* a Reset and a matching resolution of a request that carried content,
\* either history and displayed content are unchanged, or history grew by
\* exactly the old (content, kind), or (Undo) it lost its last entry; a
\* resolution with content replaces the content and leaves history alone.
C18_HistoryDiscipline ==
  IF sent /\ ev.type = "RESET"
  THEN context.history = << >>
  ELSE IF Resolved /\ Truthy(pre.context.inputRequest[1].content)
       THEN context.history = pre.context.history
       ELSE C18_HistoryAsStated

\* an Append in displaying pushed the old content onto a non-empty history
C18_Witness ==
  /\ sent /\ ev.type = "APPEND"
  /\ pre.value = "displaying"
  /\ pre.context.history # << >>
  /\ context.text # pre.context.text
  /\ HistoryPushed

\* the keys a request names as write targets: its key, or its field keys
NamedKeys(request) ==
  IF isMultiFieldRequest(<<request>>)
  THEN FieldKeys(request)
  ELSE IF request.key # Null THEN {request.key[1]} ELSE {}

\* C19: in every step, a key's value in userContext changes or disappears
\* only if the command is SetUserContext for that key, ClearUserContext, or
\* a matching-id SubmitSingle/SubmitMulti whose resolved request names that
\* key as its key or one of its field keys; every other command and a
\* restart leave userContext identical.
C19_UserContextOnlyExplicitWrites ==
  \A k \in DOMAIN pre.context.userContext :
    (\/ k \notin DOMAIN context.userContext
     \/ context.userContext[k] # pre.context.userContext[k])
    => /\ sent
       /\ \/ ev.type = "SET_USER_CONTEXT" /\ ev.key = k
          \/ ev.type = "CLEAR_USER_CONTEXT"
          \/ /\ ev.type \in {"SUBMIT_INPUT", "SUBMIT_MULTI_FORM"}
             /\ MatchingResolution(pre.value, pre.context, ev)
             /\ k \in NamedKeys(pre.context.inputRequest[1])

\* C20: ToggleSidebar is accepted in idle, displaying and waitingForInput:
\* it flips sidebarVisible and leaves the machine state unchanged.
C20_ToggleSidebarAnyState ==
  (sent /\ ev.type = "TOGGLE_SIDEBAR") =>
    /\ context.sidebarVisible = ~pre.context.sidebarVisible
    /\ state = pre.value

\* the restartable subset of a context
Restartable(c) ==
  [ text |-> c.text,
    contentType |-> c.contentType,
    history |-> c.history,
    userContext |-> c.userContext,
    inputRequest |-> c.inputRequest,
    inputStatus |-> c.inputStatus,
    sidebarVisible |-> c.sidebarVisible ]

\* C21: after every committed transition, if the write succeeds, the state
\* file holds exactly the restartable projection (text, contentType,
\* history, userContext, inputRequest, inputStatus, sidebarVisible) of the
\* live context: each write overwrites the previous one, so the file is
\* never older than the live state once a command has returned.
C21_FileIsLatestProjection ==
  (sent /\ writable) =>
    /\ file # Null
    /\ Restartable(file[1]) = Restartable(context)

\* a command changed a context with a pending request, history, user
\* context and a hidden sidebar, and the write succeeded
C21_Witness ==
  /\ sent /\ writable
  /\ context # pre.context
  /\ Restartable(file[1]) # Restartable(pre.context)
  /\ context.inputRequest # Null
  /\ context.history # << >>
  /\ ~context.sidebarVisible

\* C22: in every command the persistence write of the resulting snapshot
\* comes before that snapshot is broadcast to the observers and before any
\* long-poll waiter is fulfilled with it.
C22_PersistBeforePublish ==
  \A i \in DOMAIN effects :
    effects[i] \in {"resolve", "broadcastState"} =>
      \E j \in 1 .. (i - 1) : effects[j] = "saveState"

\* a command persisted its snapshot, fulfilled a waiter with it and
\* broadcast it to a connected observer
C22_Witness ==
  /\ effects = <<"saveState", "resolve", "broadcastState">>
  /\ DOMAIN clients # {}
  /\ \E w \in DOMAIN resolved : Len(resolved[w]) = 1

\* the process has just been started again with a request pending in the
\* state file it loaded
RestoredPending ==
  /\ lastCall.via = "start"
  /\ lastCall.op = "loaded"
  /\ pre.context.inputRequest # Null

\* C23: restarting from a state file written while a request was pending
\* gives state waitingForInput with inputStatus pending and a pending
\* request whose requestId differs from the original but whose other fields
\* (prompt, fields, key, content) are identical; text, contentType, history,
\* userContext and sidebarVisible are restored unchanged.
C23_RestartRoundTrip ==
  RestoredPending =>
    /\ state = "waitingForInput"
    /\ context.inputStatus = "pending"
    /\ context.inputRequest # Null
    /\ context.inputRequest[1].requestId # pre.context.inputRequest[1].requestId
    /\ [context.inputRequest[1] EXCEPT !.requestId = 0]
         = [pre.context.inputRequest[1] EXCEPT !.requestId = 0]
    /\ context.text = pre.context.text
    /\ context.contentType = pre.context.contentType
    /\ context.history = pre.context.history
    /\ context.userContext = pre.context.userContext
    /\ context.sidebarVisible = pre.context.sidebarVisible

\* a restart restored a request carrying content over a non-empty history
\* and a hidden sidebar
C23_Witness ==
  /\ RestoredPending
  /\ Truthy(pre.context.inputRequest[1].content)
  /\ pre.context.history # << >>
  /\ ~pre.context.sidebarVisible

\* C24: on start-up from an existing state file the initial machine state
\* is waitingForInput if the file holds a pending request, otherwise
\* displaying if the restored text is non-empty, otherwise idle.
C24_InitialStateOnStartup ==
  (lastCall.via = "start" /\ lastCall.op = "loaded") =>
    state = IF pre.context.inputRequest # Null THEN "waitingForInput"
            ELSE IF pre.context.text # "" THEN "displaying"
            ELSE "idle"

\* a restart in displaying with an empty text came up in idle
C24_Witness ==
  /\ lastCall.via = "start"
  /\ lastCall.op = "loaded"
  /\ pre.value = "displaying"
  /\ pre.context.text = ""
  /\ state = "idle"

\* a resolution was sent while a request restored by a restart was pending
ResolutionAfterRestore ==
  /\ sent
  /\ ev.type \in ResolutionTypes
  /\ pre.value = "waitingForInput"
  /\ staleIds # {}

\* C25: after a restart that restored a pending request, a submit or cancel
\* carrying the request's pre-restart id is rejected (the state stays
\* waitingForInput and the request stays pending), and only a resolution
\* carrying the freshly minted id resolves it.
C25_StaleIdRejected ==
  ResolutionAfterRestore =>
    /\ ev.requestId \in staleIds =>
         /\ state = "waitingForInput"
         /\ context.inputRequest = pre.context.inputRequest
         /\ context.inputStatus = "pending"
    /\ state = "displaying" =>
         ev.requestId = pre.context.inputRequest[1].requestId

\* the restored request was refused a submit carrying its pre-restart id
C25_Witness ==
  /\ ResolutionAfterRestore
  /\ ev.requestId \in staleIds
  /\ lastCall.via = "message"
  /\ pre.context.inputRequest[1].requestId = ev.requestId + 1

\* the process has just been started with the state file missing or
\* unparsable
DamagedStart ==
  /\ lastCall.via = "start"
  /\ lastCall.op \in {"missing", "unparsable"}

\* C26 (state part): a start that finds the state file missing or
\* unparsable comes up in idle with the default context.
C26_DefaultsOnLoadFailure ==
  DamagedStart => (state = "idle" /\ context = initialContext)

\* C26 (step part): the machine started that way accepts commands as a
\* fresh one does.
C26_ThenAcceptsCommands ==
  [][(DamagedStart /\ SetMarkdown) =>
       /\ state' = "displaying"
       /\ context'.text = lastEvent'[1].markdown
       /\ context'.lastError = Null]_vars

\* C26: if the state file is missing or cannot be parsed at start-up, the
\* machine starts in idle with the default context (empty text, history and
\* userContext, no pending request, inputStatus idle) and accepts commands
\* normally; a load failure never prevents the start.
C26_LoadFailureFallsBack ==
  []C26_DefaultsOnLoadFailure /\ C26_ThenAcceptsCommands

\* a process that had content, history and user context was started again
\* on an unparsable state file
C26_Witness ==
  /\ DamagedStart
  /\ lastCall.op = "unparsable"
  /\ steps > 0
  /\ pre.context.text # ""
  /\ pre.context.userContext # EmptyMap

\* C27: a failing persistence write never blocks or rolls back a
\* transition: the in-memory state and context are those the command
\* produced, the command returns its reply, and the snapshot is broadcast
\* to the observers and delivered to the waiters.
C27_WriteFailureDoesNotBlock ==
  (sent /\ lastCall.via # "get_user_input" /\ ~writable) =>
    /\ file \in {Null, Unparsable}
    /\ Snapshot(state, context) = textMachine(pre.value, pre.context, ev)
    /\ lastCall.via \notin {"sendEvent", "message"} => lastCall.reply # Null
    /\ lastCall.via # "sendEvent" =>
         /\ effects[Len(effects)] = "broadcastState"
         /\ \A k \in DOMAIN clients : clients[k].last = StateUpdate(state, context)
    /\ MatchingResolution(pre.value, pre.context, ev) =>
         \A w \in DOMAIN resolved : Len(resolved[w]) >= 1

\* on a disk that refuses writes, a submit resolved the pending request,
\* reached a connected observer and fulfilled a waiter
C27_Witness ==
  /\ sent /\ lastCall.via = "message" /\ ~writable
  /\ MatchingResolution(pre.value, pre.context, ev)
  /\ state = "displaying"
  /\ DOMAIN clients # {}
  /\ DOMAIN resolved # {}

\* the names in a list of available actions
ActionNames(actions) == [i \in DOMAIN actions |-> actions[i].name]

\* C28: in waitingForInput the available actions are exactly reset, and
\* undo is listed only when the history is non-empty, with a reason that
\* reports the history count.
C28_AvailableActions ==
  LET actions == getAvailableActions(state, context)
  IN /\ state = "waitingForInput" => ActionNames(actions) = <<"reset">>
     /\ \A i \in DOMAIN actions :
          actions[i].name = "undo" =>
            /\ Len(context.history) > 0
            /\ actions[i].reason
                 = <<"Can undo " \o ToString(Len(context.history)) \o " change(s)">>

\* undo is offered with two entries in the history
C28_Witness ==
  /\ Len(context.history) = 2
  /\ \E i \in DOMAIN getAvailableActions(state, context) :
       /\ getAvailableActions(state, context)[i].name = "undo"
       /\ getAvailableActions(state, context)[i].reason = <<"Can undo 2 change(s)">>

\* the operations that come in as tool calls or WebSocket messages
Intakes == {"execute_action", "show_input_form", "show_multi_form",
            "set_user_context", "clear_user_context", "message"}

\* C29 (step part): every command that comes in as a tool call or as a
\* WebSocket submit/cancel and is sent to the machine adds exactly one
\* message, the snapshot it produced, to every open connection.
C29_OneSnapshotPerCommand ==
  [][(lastCall'.via \in Intakes /\ lastEvent' # Null /\ steps' # steps) =>
       \A k \in DOMAIN clients :
         /\ k \in DOMAIN clients'
         /\ clients'[k].n = clients[k].n + 1
         /\ clients'[k].last = StateUpdate(state', context')]_vars

\* C29 (state part): after such a command every open connection holds the
\* snapshot of the state the machine is in.
C29_ObserversHoldLatest ==
  (lastCall.via \in Intakes /\ sent) =>
    \A k \in DOMAIN clients : clients[k].last = StateUpdate(state, context)

\* C29: commands from the controller and from the observers are applied one
\* at a time, and every open connection receives one snapshot per committed
\* command, in commit order, none skipped and none reordered.
C29_SnapshotsInCommitOrder ==
  []C29_ObserversHoldLatest /\ C29_OneSnapshotPerCommand

\* two observers have each received the snapshots of two commands
C29_Witness ==
  /\ DOMAIN clients = Clients
  /\ \A k \in DOMAIN clients : clients[k].n >= 3
  /\ lastCall.via \in Intakes
  /\ sent

\* C30: an unknown operation name at the intake (an unknown execute_action
\* action or an unknown WebSocket message type) is rejected with an error
\* reported to the caller and never reaches the machine: state and context
\* are unchanged and nothing is broadcast.
C30_UnknownOperationRejected ==
  (lastCall.op \in UnknownActions \cup UnknownMessages) =>
    /\ lastCall.reply # Null
    /\ ~lastCall.reply[1].success
    /\ lastCall.reply[1].error # Null
    /\ lastEvent = Null
    /\ Snapshot(state, context) = pre
    /\ "broadcastState" \notin {effects[i] : i \in DOMAIN effects}

\* C32: when show_input_form or show_multi_form replies success with a
\* requestId, the machine's pending request afterwards has that id, in
\* whatever state the call was made, another request pending included.
C32_ReplyNamesPendingRequest ==
  (lastCall.via \in {"show_input_form", "show_multi_form"} /\ lastCall.reply[1].success) =>
    /\ context.inputRequest # Null
    /\ context.inputRequest[1].requestId = lastCall.reply[1].requestId

C34_ResolutionKindMatchesRequest ==
  (sent /\ MatchingResolution(pre.value, pre.context, ev)
        /\ ev.type \in {"SUBMIT_INPUT", "SUBMIT_MULTI_FORM"}) =>
    IF isMultiFieldRequest(pre.context.inputRequest) = (ev.type = "SUBMIT_MULTI_FORM")
    THEN /\ context.inputStatus = "submitted"
         /\ ev.type = "SUBMIT_INPUT" => context.multiFieldInput = Null
         /\ ev.type = "SUBMIT_MULTI_FORM" => context.userInput = Null
    ELSE Snapshot(state, [context EXCEPT !.lastError = Null])
           = [pre EXCEPT !.context.lastError = Null]

\* C35: no long-poll subscription outlives its request: whenever the
\* machine is not in waitingForInput no waiter is still subscribed.
C35_NoWaiterOutlivesRequest ==
  state # "waitingForInput" => waiters = {}

\* the events an action name of getAvailableActions stands for
EventsFor(name) ==
  CASE name = "set_markdown" -> {[type |-> "SET_MARKDOWN", markdown |-> m] : m \in Markdowns}
    [] name = "append" -> {[type |-> "APPEND", text |-> t] : t \in AppendTexts}
    [] name = "undo" -> {[type |-> "UNDO"]}
    [] name = "reset" -> {[type |-> "RESET"]}
    [] name = "toggle_sidebar" -> {[type |-> "TOGGLE_SIDEBAR"]}
    [] OTHER -> {}

\* C37: getAvailableActions is sound: every action it lists in a state
\* names a command the machine accepts there, that is, sending it changes
\* the state or the context.
C37_AvailableActionsSound ==
  LET actions == getAvailableActions(state, context)
  IN \A i \in DOMAIN actions :
       \E e \in EventsFor(actions[i].name) :
         textMachine(state, context, e) # Snapshot(state, context)

C39_SecondResolutionIgnored ==
  (sent /\ ev.type \in ResolutionTypes
        /\ ev.requestId \in resolvedIds
        /\ ~MatchingResolution(pre.value, pre.context, ev)) =>
    /\ state = pre.value
    /\ context.inputStatus = pre.context.inputStatus
    /\ context.inputRequest = pre.context.inputRequest
    /\ context.userInput = pre.context.userInput
    /\ context.multiFieldInput = pre.context.multiFieldInput
    /\ context.userContext = pre.context.userContext
    /\ context.text = pre.context.text
    /\ context.contentType = pre.context.contentType
    /\ context.history = pre.context.history

\* a cancel arrives over the WebSocket with the id of a request that a
\* submit has already resolved
C39_Witness ==
  /\ sent
  /\ lastCall.via = "message"
  /\ ev.type = "CANCEL_INPUT"
  /\ ev.requestId \in resolvedIds
  /\ pre.value = "displaying"
  /\ pre.context.inputStatus = "submitted"
  /\ pre.context.userInput # Null

\* C31: get_user_input returns idle only if no input request has ever been
\* made; once a request has been created it never returns idle.
C31_IdleOnlyBeforeAnyRequest ==
  (lastCall.via = "get_user_input" /\ lastCall.reply # Null
      /\ lastCall.reply[1].status = "idle") =>
    nextId = 1

\* C36: whenever get_user_input returns submitted, the result carries the
\* value or values of the submission that resolved the request, in every
\* reachable state, after a restart from the state file included.
C36_SubmittedResultCarriesValues ==
  (lastCall.via = "get_user_input" /\ lastCall.reply # Null
      /\ lastCall.reply[1].status = "submitted") =>
    \/ lastCall.reply[1].value \in {<<v>> : v \in SubmitValues}
    \/ lastCall.reply[1].values \in {<<vs>> : vs \in MultiValues}

\* sockets of a page that are connecting or open
LiveSockets(p) ==
  {k \in DOMAIN readyState[p] : readyState[p][k] \in {"CONNECTING", "OPEN"}}

\* C40: a page keeps at most one reconnect timer outstanding; while
\* mounted, after every connection loss a reconnect is under way (a socket
\* is connecting or open, or the timer is set); after unmount no reconnect
\* is scheduled or performed: no timer is outstanding and no socket is
\* connecting or open.
C40_ReconnectDiscipline ==
  \A p \in Pages :
    /\ Cardinality(timers[p]) <= 1
    /\ component[p] = "mounted" => (LiveSockets(p) # {} \/ timers[p] # {})
    /\ component[p] = "unmounted" => (timers[p] = {} /\ LiveSockets(p) = {})

====
